---- MODULE Spec2Model ----
(***************************************************************************)
(* QasT: a line-oriented scripting language.  Model of the tokenizer       *)
(* (src/lib/lexer.js), the recursive-descent parser (src/lib/parser.js)    *)
(* and the tree-walking evaluator (src/lib/runtime.js).                    *)
(*                                                                         *)
(* Source text is a sequence of one-character strings.  JavaScript         *)
(* `undefined` and `null` are the records Undefined and Null.  Runtime     *)
(* values are tagged records: Num(i), Str(s), Bool(b), Null, Undefined,    *)
(* NaN, and Unmodelled for numbers outside the integer fragment.           *)
(***************************************************************************)
EXTENDS Integers, Sequences, FiniteSets, TLC

VARIABLES
    source,       \* lex: the source text (sequence of characters)
    lexI,         \* lex: loop index i (0-based), lexer.js:18
    headerFound,  \* lex: lexer.js:16
    tokens,       \* lex: the token array under construction, lexer.js:14
    lexPc,        \* lex: "idle" | "loop" | "returned" | "failed"
    err,          \* the error thrown by the failing stage, or NoErr
    stage,        \* pipeline position of main(): "lex" | "parse" | "eval" | "exit"
    ast,          \* the Program returned by parse, or Undefined
    trace,        \* runtime.trace, runtime.js:7
    envStack,     \* runtime.envStack, runtime.js:6
    evalI,        \* evalProgram: number of statements of body already completed
    evalPc,       \* evalProgram: "idle" | "run" | "done" | "failed"
    awaiting,     \* InputStatement: "no" | "waiting" | "resolved"
    answer,       \* the line handed to rl.question's callback
    output,       \* what was written to stdout, in order
    result,       \* the value evalProgram resolved with
    evaluated,    \* history: indices of the statements evalStatement was called on
    lastOp,       \* history: the last setVar / getVar call and what it returned
    refTree,      \* expressions: the reference tree the input was rendered from
    cursor        \* expressions: the parser's pos after parseExpression returned

lexVars == <<source, lexI, headerFound, tokens, lexPc>>
evalVars == <<trace, envStack, evalI, evalPc, awaiting, answer, output, result, evaluated>>
vars == <<source, lexI, headerFound, tokens, lexPc, err, stage, ast, trace, envStack,
          evalI, evalPc, awaiting, answer, output, result, evaluated, lastOp, refTree, cursor>>

-----------------------------------------------------------------------------
(* Bounds of the model *)

MaxLexLines == 3
MaxStmts == 3
MaxDepth == 3
MaxOps == 2

-----------------------------------------------------------------------------
(* JavaScript values *)

Undefined == [t |-> "undefined"]
Null == [t |-> "null"]
NaN == [t |-> "nan"]
Unmodelled == [t |-> "unmodelled"]
Num(i) == [t |-> "num", v |-> i]
Str(s) == [t |-> "str", v |-> s]
Bool(b) == [t |-> "bool", v |-> b]
PrintFn == [t |-> "fn", v |-> "print"]

NoErr == [isQastError |-> FALSE, message |-> "none"]

File == Str("prog.qast")

QastError(message, file, line, column, hint) ==
    [isQastError |-> TRUE, message |-> message, file |-> file, line |-> line,
     column |-> column, hint |-> hint]

InternalError(message) == [isQastError |-> FALSE, message |-> message]

-----------------------------------------------------------------------------
(* Characters and strings *)

IsSpace(c) == c \in {" ", "\t", "\r"}
IsDigit(c) == c \in {"0", "1", "2", "3", "4", "5", "6", "7", "8", "9"}
IsAlpha(c) ==
    c \in {"a", "b", "c", "d", "e", "f", "g", "h", "i", "j", "k", "l", "m",
           "n", "o", "p", "q", "r", "s", "t", "u", "v", "w", "x", "y", "z",
           "A", "B", "C", "D", "E", "F", "G", "H", "I", "J", "K", "L", "M",
           "N", "O", "P", "Q", "R", "S", "T", "U", "V", "W", "X", "Y", "Z", "_"}

DigitVal(c) ==
    CASE c = "0" -> 0 [] c = "1" -> 1 [] c = "2" -> 2 [] c = "3" -> 3 [] c = "4" -> 4
      [] c = "5" -> 5 [] c = "6" -> 6 [] c = "7" -> 7 [] c = "8" -> 8 [] c = "9" -> 9

DigitChar(d) ==
    CASE d = 0 -> "0" [] d = 1 -> "1" [] d = 2 -> "2" [] d = 3 -> "3" [] d = 4 -> "4"
      [] d = 5 -> "5" [] d = 6 -> "6" [] d = 7 -> "7" [] d = 8 -> "8" [] d = 9 -> "9"

RECURSIVE Concat(_)
\* A sequence of characters as one string.
Concat(cs) == IF cs = <<>> THEN "" ELSE Head(cs) \o Concat(Tail(cs))

StartsWith(s, p) == Len(s) >= Len(p) /\ SubSeq(s, 1, Len(p)) = p

RECURSIVE SkipSpaces(_, _)
\* The first position >= k (1-based) of s that holds no whitespace, or Len(s)+1.
SkipSpaces(s, k) ==
    IF k <= Len(s) /\ IsSpace(s[k]) THEN SkipSpaces(s, k + 1) ELSE k

RECURSIVE SkipSpacesBack(_, _)
SkipSpacesBack(s, k) ==
    IF k >= 1 /\ IsSpace(s[k]) THEN SkipSpacesBack(s, k - 1) ELSE k

\* String.prototype.trim
Trim(raw) == SubSeq(raw, SkipSpaces(raw, 1), SkipSpacesBack(raw, Len(raw)))

RECURSIVE IndexOfFrom(_, _, _)
IndexOfFrom(s, sub, k) ==
    IF k + Len(sub) > Len(s) THEN -1
    ELSE IF SubSeq(s, k + 1, k + Len(sub)) = sub THEN k
    ELSE IndexOfFrom(s, sub, k + 1)

\* String.prototype.indexOf: the 0-based index of the first occurrence, or -1.
IndexOf(s, sub) == IndexOfFrom(s, sub, 0)

\* source.split(/\r?\n/): the pieces between the newlines, each without the
\* \r that precedes the newline ending it
SplitLines(s) ==
    LET nl == {k \in 1..Len(s) : s[k] = "\n"}
        n == Cardinality(nl) + 1
        Nth(i) == CHOOSE p \in nl : Cardinality({q \in nl : q < p}) = i - 1
        first(i) == IF i = 1 THEN 1 ELSE Nth(i - 1) + 1
        last(i) == IF i = n THEN Len(s)
                   ELSE IF Nth(i) - 1 >= first(i) /\ s[Nth(i) - 1] = "\r" THEN Nth(i) - 2
                   ELSE Nth(i) - 1
    IN [i \in 1..n |-> SubSeq(s, first(i), last(i))]

-----------------------------------------------------------------------------
(* lexer.js: the statement tokenizer *)

KEYWORDS == {"print", "set", "input", "if", "elif", "else", "end", "loop", "while",
             "fn", "return"}

ToUpperCase(w) ==
    CASE w = "print" -> "PRINT" [] w = "set" -> "SET" [] w = "input" -> "INPUT"
      [] w = "if" -> "IF" [] w = "elif" -> "ELIF" [] w = "else" -> "ELSE"
      [] w = "end" -> "END" [] w = "loop" -> "LOOP" [] w = "while" -> "WHILE"
      [] w = "fn" -> "FN" [] w = "return" -> "RETURN"

keywordOrIdent(value) == IF value \in KEYWORDS THEN ToUpperCase(value) ELSE "IDENT"

Token(type, value, line, column, file) ==
    [type |-> type, value |-> value, line |-> line, column |-> column, file |-> file]

RECURSIVE readStringFrom(_, _, _, _, _, _)
\* text and start are 0-based as in the code; pos is the 0-based scan position.
readStringFrom(text, start, pos, value, file, line) ==
    IF pos >= Len(text)
    THEN [ok |-> FALSE,
          err |-> QastError("Unterminated string literal", file, line, start + 1, Undefined)]
    ELSE LET ch == text[pos + 1] IN
         IF ch = "\\"
         THEN LET next == IF pos + 1 < Len(text) THEN text[pos + 2] ELSE "undefined"
                  add == IF next = "n" THEN "\n" ELSE IF next = "t" THEN "\t" ELSE next
              IN readStringFrom(text, start, pos + 2, value \o add, file, line)
         ELSE IF ch = text[start + 1]
         THEN [ok |-> TRUE, value |-> value, endPos |-> pos + 1]
         ELSE readStringFrom(text, start, pos + 1, value \o ch, file, line)

readString(text, start, file, line) == readStringFrom(text, start, start + 1, "", file, line)

RECURSIVE NumberEnd(_, _)
NumberEnd(text, pos) ==
    IF pos < Len(text) /\ (IsDigit(text[pos + 1]) \/ text[pos + 1] = ".")
    THEN NumberEnd(text, pos + 1) ELSE pos

RECURSIVE DigitsValue(_, _)
DigitsValue(ds, acc) ==
    IF ds = <<>> THEN acc ELSE DigitsValue(Tail(ds), 10 * acc + DigitVal(Head(ds)))

\* Number(raw) for raw matching [0-9][0-9.]*: an integer for a digit string (a
\* trailing "." allowed); a text with a fraction is a number outside the integer
\* fragment; two or more dots are NaN.
JsNumber(raw) ==
    LET dots == {k \in 1..Len(raw) : raw[k] = "."} IN
    IF dots = {} THEN Num(DigitsValue(raw, 0))
    ELSE IF Cardinality(dots) > 1 THEN NaN
    ELSE IF raw[Len(raw)] = "." THEN Num(DigitsValue(SubSeq(raw, 1, Len(raw) - 1), 0))
    ELSE Unmodelled

readNumber(text, start) ==
    LET pos == NumberEnd(text, start) IN
    [value |-> JsNumber(SubSeq(text, start + 1, pos)), endPos |-> pos]

RECURSIVE IdentEnd(_, _)
IdentEnd(text, pos) ==
    IF pos < Len(text) /\ (IsAlpha(text[pos + 1]) \/ IsDigit(text[pos + 1]))
    THEN IdentEnd(text, pos + 1) ELSE pos

readIdent(text, start) ==
    LET pos == IdentEnd(text, start) IN
    [value |-> Concat(SubSeq(text, start + 1, pos)), endPos |-> pos]

TwoCharOps == {"==", "!=", ">=", "<=", "&&", "||"}
OneCharOps == {"+", "-", "*", "/", "%", ">", "<", "=", "(", ")", "{", "}", "[", "]",
               ",", "."}

RECURSIVE tokenizeFrom(_, _, _, _, _)
\* The while loop of tokenizeStatement; pos is 0-based, column = pos + 1.
tokenizeFrom(text, pos, toks, file, line) ==
    IF pos >= Len(text) THEN [ok |-> TRUE, tokens |-> toks]
    ELSE
    LET ch == text[pos + 1]
        column == pos + 1
        two == Concat(SubSeq(text, pos + 1, IF pos + 2 <= Len(text) THEN pos + 2 ELSE Len(text)))
    IN
    IF IsSpace(ch) THEN tokenizeFrom(text, pos + 1, toks, file, line)
    ELSE IF ch = "\"" \/ ch = "'"
    THEN LET r == readString(text, pos, file, line) IN
         IF ~r.ok THEN [ok |-> FALSE, err |-> r.err]
         ELSE tokenizeFrom(text, r.endPos,
                           Append(toks, Token("STRING", r.value, line, column, file)),
                           file, line)
    ELSE IF IsDigit(ch)
    THEN LET r == readNumber(text, pos) IN
         tokenizeFrom(text, r.endPos,
                      Append(toks, Token("NUMBER", r.value, line, column, file)), file, line)
    ELSE IF IsAlpha(ch)
    THEN LET r == readIdent(text, pos) IN
         tokenizeFrom(text, r.endPos,
                      Append(toks, Token(keywordOrIdent(r.value), r.value, line, column, file)),
                      file, line)
    ELSE IF two \in TwoCharOps
    THEN tokenizeFrom(text, pos + 2, Append(toks, Token("OP", two, line, column, file)),
                      file, line)
    ELSE IF ch \in OneCharOps
    THEN tokenizeFrom(text, pos + 1, Append(toks, Token("OP", ch, line, column, file)),
                      file, line)
    ELSE [ok |-> FALSE,
          err |-> QastError("Unexpected character '" \o ch \o "'", file, line, column,
                            Undefined)]

tokenizeStatement(text, toks, file, line) == tokenizeFrom(text, 0, toks, file, line)

-----------------------------------------------------------------------------
(* lexer.js: lex *)

HeaderText == <<"n", "e", "w", " ", "q", "a", "s">>
Prefix == <<"q", ".">>
HeaderMessage == "Missing QasT header (new qas)."
HeaderHint == "First non-empty line must be: new qas"
PrefixMessage == "Executable lines must start with 'q.'."

\* lexer.js:27, the test that accepts a header line
IsHeader(trimmed) == StartsWith(trimmed, HeaderText)

\* Faulty variant of PrefixColumn: the 0-based index of the first character
PrefixColumnZeroBased(raw, trimmed) == IndexOf(raw, trimmed)

\* lexer.js:36, the column of a prefix error
PrefixColumn(raw, trimmed) == IndexOf(raw, trimmed) + 1

\* Faulty variant of EofToken: the 0-based index of the last line
EofTokenLastIndex(lines, file) == Token("EOF", Null, Len(lines) - 1, 1, file)

\* lexer.js:43
EofToken(lines, file) == Token("EOF", Null, Len(lines), 1, file)

\* One iteration of the for loop of lex on the state
\* st = [i, headerFound, tokens, pc, err]; pc = "loop" while the loop runs.
LexIter(lines, st, file) ==
    LET lineNum == st.i + 1
        raw == lines[st.i + 1]
        trimmed == Trim(raw)
        next == [st EXCEPT !.i = st.i + 1]
    IN
    IF trimmed = <<>> THEN next
    ELSE IF StartsWith(trimmed, <<"#">>) THEN next
    ELSE IF ~st.headerFound
    THEN IF ~IsHeader(trimmed)
         THEN [st EXCEPT !.pc = "failed",
                         !.err = QastError(HeaderMessage, file, lineNum, 1, Str(HeaderHint))]
         ELSE [next EXCEPT !.headerFound = TRUE]
    ELSE IF ~StartsWith(trimmed, Prefix)
    THEN [st EXCEPT !.pc = "failed",
                    !.err = QastError(PrefixMessage, file, lineNum,
                                      PrefixColumn(raw, trimmed), Undefined)]
    ELSE LET stmt == SubSeq(raw, IndexOf(raw, Prefix) + 3, Len(raw))
             r == tokenizeStatement(stmt, st.tokens, file, lineNum)
         IN IF r.ok THEN [next EXCEPT !.tokens = r.tokens]
            ELSE [st EXCEPT !.pc = "failed", !.err = r.err]

\* The exit of the loop: push EOF and return the tokens.
LexExit(lines, st, file) ==
    [st EXCEPT !.pc = "returned", !.tokens = Append(st.tokens, EofToken(lines, file))]

LexStart == [i |-> 0, headerFound |-> FALSE, tokens |-> <<>>, pc |-> "loop", err |-> NoErr]

RECURSIVE LexRun(_, _, _)
LexRun(lines, st, file) ==
    IF st.pc # "loop" THEN st
    ELSE IF st.i < Len(lines) THEN LexRun(lines, LexIter(lines, st, file), file)
    ELSE LexExit(lines, st, file)

\* lex(source, file) as a function: [pc |-> "returned", tokens] or [pc |-> "failed", err].
lex(src, file) == LexRun(SplitLines(src), LexStart, file)

-----------------------------------------------------------------------------
(* Conversions of values to text *)

RECURSIVE NatToStr(_)
NatToStr(n) == IF n < 10 THEN DigitChar(n) ELSE NatToStr(n \div 10) \o DigitChar(n % 10)

IntToStr(i) == IF i < 0 THEN "-" \o NatToStr(-i) ELSE NatToStr(i)

\* String(v) of a runtime value
JsToString(v) ==
    CASE v.t = "num" -> IntToStr(v.v)
      [] v.t = "str" -> v.v
      [] v.t = "bool" -> (IF v.v THEN "true" ELSE "false")
      [] v.t = "null" -> "null"
      [] v.t = "undefined" -> "undefined"
      [] v.t = "nan" -> "NaN"
      [] OTHER -> "<unmodelled>"

-----------------------------------------------------------------------------
(* parser.js *)

\* parser.js:6, pos is the 0-based cursor
peek(toks, pos) == IF pos < Len(toks) THEN toks[pos + 1] ELSE toks[Len(toks)]

\* `${tok.value ?? ''}` of a token
TokValueText(tok) ==
    IF tok.type = "NUMBER" THEN JsToString(tok.value)
    ELSE IF tok.type = "EOF" THEN ""
    ELSE tok.value

\* match(type) and match('OP', value): whether the cursor advances
matchType(toks, pos, type) == peek(toks, pos).type = type
matchOp(toks, pos, value) == peek(toks, pos).type = "OP" /\ peek(toks, pos).value = value

\* consume(type) and consume('OP', value)
consumeType(toks, pos, type, file) ==
    LET tok == peek(toks, pos) IN
    IF tok.type = type THEN [ok |-> TRUE, tok |-> tok, pos |-> pos + 1]
    ELSE [ok |-> FALSE,
          err |-> QastError("Expected " \o type \o " but found " \o tok.type \o " "
                              \o TokValueText(tok),
                            file, tok.line, tok.column, Undefined)]

consumeOp(toks, pos, value, file) ==
    LET tok == peek(toks, pos) IN
    IF tok.type = "OP" /\ tok.value = value THEN [ok |-> TRUE, tok |-> tok, pos |-> pos + 1]
    ELSE [ok |-> FALSE,
          err |-> QastError("Expected OP(" \o value \o ") but found " \o tok.type \o " "
                              \o TokValueText(tok),
                            file, tok.line, tok.column, Undefined)]

\* parser.js:254-258; startNode and endNode are tokens, nodes or Undefined
locFrom(startNode, endNode) ==
    LET s == IF "loc" \in DOMAIN startNode THEN startNode.loc.start
             ELSE [line |-> startNode.line, column |-> startNode.column]
        e == IF "loc" \in DOMAIN endNode THEN endNode.loc.end ELSE s
    IN [start |-> s, end |-> e]

Ok(node, pos) == [ok |-> TRUE, node |-> node, pos |-> pos]

BinaryExpression(op, left, right) ==
    [type |-> "BinaryExpression", operator |-> op, left |-> left, right |-> right,
     loc |-> locFrom(left, right)]

\* parser.js:229: the start node handed to locFrom is tokens[pos - 1] read after
\* the operand was parsed, pos being the cursor at that moment.
UnaryLoc(toks, posAfter, right) == locFrom(toks[posAfter], right)

UnaryOps == {"!", "-"}

\* Faulty variant of LevelOps: the additive and the multiplicative operators
\* exchanged
LevelOpsExchanged(level) ==
    CASE level = "equality" -> {"==", "!="}
      [] level = "comparison" -> {">", "<", ">=", "<="}
      [] level = "term" -> {"*", "/", "%"}
      [] level = "factor" -> {"+", "-"}

\* The operators each binary production matches (parser.js:159, 175, 191, 207)
LevelOps(level) ==
    CASE level = "equality" -> {"==", "!="}
      [] level = "comparison" -> {">", "<", ">=", "<="}
      [] level = "term" -> {"+", "-"}
      [] level = "factor" -> {"*", "/", "%"}

\* The production each binary production parses its operands with
\* (parser.js:158/161, 174/177, 190/193, 206/209)
NextLevel(level) ==
    CASE level = "equality" -> "comparison"
      [] level = "comparison" -> "term"
      [] level = "term" -> "factor"
      [] level = "factor" -> "unary"

IsOpIn(toks, pos, ops) == \E o \in ops : matchOp(toks, pos, o)

RECURSIVE parseLevel(_, _, _, _), BinaryLoop(_, _, _, _, _)

\* parser.js:235-252; inner is the value of the call parseExpression() of line
\* 247, made with the cursor behind the "(".
parsePrimary(toks, pos, file, inner) ==
    LET tok == peek(toks, pos) IN
    IF matchType(toks, pos, "NUMBER")
    THEN Ok([type |-> "NumberLiteral", value |-> tok.value, loc |-> locFrom(tok, Undefined)],
            pos + 1)
    ELSE IF matchType(toks, pos, "STRING")
    THEN Ok([type |-> "StringLiteral", value |-> tok.value, loc |-> locFrom(tok, Undefined)],
            pos + 1)
    ELSE IF matchType(toks, pos, "IDENT")
    THEN Ok([type |-> "Identifier", name |-> tok.value, loc |-> locFrom(tok, Undefined)],
            pos + 1)
    ELSE IF matchOp(toks, pos, "(")
    THEN IF ~inner.ok THEN inner
         ELSE LET c == consumeOp(toks, inner.pos, ")", file) IN
              IF ~c.ok THEN c
              ELSE Ok([type |-> "Grouping", expression |-> inner.node,
                       loc |-> locFrom(tok, inner.node)], c.pos)
    ELSE [ok |-> FALSE,
          err |-> QastError("Unexpected token " \o tok.type, file, tok.line, tok.column,
                            Undefined)]

\* parser.js:221-233; sub is the value of the call the production makes: the
\* recursive parseUnary() of line 224 behind a prefix operator, parsePrimary()
\* of line 232 otherwise.
parseUnary(toks, pos, file, sub) ==
    IF IsOpIn(toks, pos, UnaryOps)
    THEN IF ~sub.ok THEN sub
         ELSE Ok([type |-> "UnaryExpression", operator |-> toks[pos + 1].value,
                  argument |-> sub.node, loc |-> UnaryLoc(toks, sub.pos, sub.node)], sub.pos)
    ELSE sub

\* One round of the while loop of a binary production once its right operand
\* is parsed (lines 160-168 and the like)
LoopStep(level, toks, expr, pos, file, right) ==
    IF ~right.ok THEN right
    ELSE BinaryLoop(level, toks, BinaryExpression(toks[pos + 1].value, expr, right.node),
                    right.pos, file)

\* The while loop of parseEquality, parseComparison, parseTerm and parseFactor:
\* each operator matched takes the expression so far as its left operand.
BinaryLoop(level, toks, expr, pos, file) ==
    IF IsOpIn(toks, pos, LevelOps(level))
    THEN LoopStep(level, toks, expr, pos, file,
                  parseLevel(NextLevel(level), toks, pos + 1, file))
    ELSE Ok(expr, pos)

\* parseEquality, parseComparison, parseTerm, parseFactor: the same code up to
\* their operators and their operand production (parser.js:157-219); first is
\* the value of the call that parses the first operand.
parseBinary(level, toks, pos, file, first) ==
    IF ~first.ok THEN first ELSE BinaryLoop(level, toks, first.node, first.pos, file)

\* The production the production named level calls first, and the cursor it
\* calls it with.
SubLevel(level, toks, pos) ==
    IF level = "primary" THEN "equality"
    ELSE IF level = "unary"
    THEN (IF IsOpIn(toks, pos, UnaryOps) THEN "unary" ELSE "primary")
    ELSE NextLevel(level)

SubPos(level, toks, pos) ==
    IF level = "primary" THEN pos + 1
    ELSE IF level = "unary" THEN (IF IsOpIn(toks, pos, UnaryOps) THEN pos + 1 ELSE pos)
    ELSE pos

Production(level, toks, pos, file, sub) ==
    IF level = "primary" THEN parsePrimary(toks, pos, file, sub)
    ELSE IF level = "unary" THEN parseUnary(toks, pos, file, sub)
    ELSE parseBinary(level, toks, pos, file, sub)

\* The production named level applied at cursor pos.  The call it makes first
\* is evaluated only where the production uses its value.
parseLevel(level, toks, pos, file) ==
    Production(level, toks, pos, file,
               parseLevel(SubLevel(level, toks, pos), toks, SubPos(level, toks, pos), file))

parseFactor(toks, pos, file) == parseLevel("factor", toks, pos, file)
parseTerm(toks, pos, file) == parseLevel("term", toks, pos, file)
parseComparison(toks, pos, file) == parseLevel("comparison", toks, pos, file)
parseEquality(toks, pos, file) == parseLevel("equality", toks, pos, file)

\* parser.js:153-155
parseExpression(toks, pos, file) == parseEquality(toks, pos, file)

parsePrint(toks, pos, file) ==
    LET start == consumeType(toks, pos, "PRINT", file) IN
    IF ~start.ok THEN start
    ELSE LET argument == parseExpression(toks, start.pos, file) IN
         IF ~argument.ok THEN argument
         ELSE Ok([type |-> "PrintStatement", argument |-> argument.node,
                  loc |-> locFrom(start.tok, argument.node)], argument.pos)

parseSet(toks, pos, file) ==
    LET start == consumeType(toks, pos, "SET", file) IN
    IF ~start.ok THEN start
    ELSE LET id == consumeType(toks, start.pos, "IDENT", file) IN
    IF ~id.ok THEN id
    ELSE LET eq == consumeOp(toks, id.pos, "=", file) IN
    IF ~eq.ok THEN eq
    ELSE LET value == parseExpression(toks, eq.pos, file) IN
    IF ~value.ok THEN value
    ELSE Ok([type |-> "SetStatement", name |-> id.tok.value, value |-> value.node,
             loc |-> locFrom(start.tok, value.node)], value.pos)

parseInput(toks, pos, file) ==
    LET start == consumeType(toks, pos, "INPUT", file) IN
    IF ~start.ok THEN start
    ELSE LET id == consumeType(toks, start.pos, "IDENT", file) IN
    IF ~id.ok THEN id
    ELSE LET hasPrompt == matchType(toks, id.pos, "STRING") IN
         Ok([type |-> "InputStatement", name |-> id.tok.value,
             prompt |-> IF hasPrompt THEN Str(toks[id.pos + 1].value) ELSE Null,
             loc |-> locFrom(start.tok, id.tok)],
            IF hasPrompt THEN id.pos + 1 ELSE id.pos)

parseIf(toks, pos, file) ==
    LET start == consumeType(toks, pos, "IF", file) IN
    IF ~start.ok THEN start
    ELSE LET e == parseExpression(toks, start.pos, file) IN
    IF ~e.ok THEN e
    ELSE LET end == consumeType(toks, e.pos, "END", file) IN
    IF ~end.ok THEN end
    ELSE Ok([type |-> "IfStatement", tests |-> <<[test |-> e.node, consequent |-> <<>>]>>,
             alternate |-> Null, loc |-> locFrom(start.tok, e.node)], end.pos)

parseLoop(toks, pos, file) ==
    LET start == consumeType(toks, pos, "LOOP", file) IN
    IF ~start.ok THEN start
    ELSE LET e == parseExpression(toks, start.pos, file) IN
    IF ~e.ok THEN e
    ELSE LET end == consumeType(toks, e.pos, "END", file) IN
    IF ~end.ok THEN end
    ELSE Ok([type |-> "LoopStatement", count |-> e.node, body |-> <<>>,
             loc |-> locFrom(start.tok, e.node)], end.pos)

parseWhile(toks, pos, file) ==
    LET start == consumeType(toks, pos, "WHILE", file) IN
    IF ~start.ok THEN start
    ELSE LET e == parseExpression(toks, start.pos, file) IN
    IF ~e.ok THEN e
    ELSE LET end == consumeType(toks, e.pos, "END", file) IN
    IF ~end.ok THEN end
    ELSE Ok([type |-> "WhileStatement", test |-> e.node, body |-> <<>>,
             loc |-> locFrom(start.tok, e.node)], end.pos)

RECURSIVE FnParams(_, _, _)
FnParams(toks, pos, params) ==
    IF matchType(toks, pos, "IDENT")
    THEN FnParams(toks, pos + 1, Append(params, toks[pos + 1].value))
    ELSE [params |-> params, pos |-> pos]

parseFn(toks, pos, file) ==
    LET start == consumeType(toks, pos, "FN", file) IN
    IF ~start.ok THEN start
    ELSE LET id == consumeType(toks, start.pos, "IDENT", file) IN
    IF ~id.ok THEN id
    ELSE LET ps == FnParams(toks, id.pos, <<>>)
             end == consumeType(toks, ps.pos, "END", file)
         IN IF ~end.ok THEN end
            ELSE Ok([type |-> "FunctionDef", name |-> id.tok.value, params |-> ps.params,
                     body |-> <<>>, loc |-> locFrom(start.tok, id.tok)], end.pos)

parseReturn(toks, pos, file) ==
    LET start == consumeType(toks, pos, "RETURN", file) IN
    IF ~start.ok THEN start
    ELSE IF peek(toks, start.pos).type # "EOF"
    THEN LET argument == parseExpression(toks, start.pos, file) IN
         IF ~argument.ok THEN argument
         ELSE Ok([type |-> "ReturnStatement", argument |-> argument.node,
                  loc |-> locFrom(start.tok, argument.node)], argument.pos)
    ELSE Ok([type |-> "ReturnStatement", argument |-> Null,
             loc |-> locFrom(start.tok, start.tok)], start.pos)

parseStatement(toks, pos, file) ==
    LET tok == peek(toks, pos) IN
    IF tok.type = "PRINT" THEN parsePrint(toks, pos, file)
    ELSE IF tok.type = "SET" THEN parseSet(toks, pos, file)
    ELSE IF tok.type = "INPUT" THEN parseInput(toks, pos, file)
    ELSE IF tok.type = "IF" THEN parseIf(toks, pos, file)
    ELSE IF tok.type = "LOOP" THEN parseLoop(toks, pos, file)
    ELSE IF tok.type = "WHILE" THEN parseWhile(toks, pos, file)
    ELSE IF tok.type = "FN" THEN parseFn(toks, pos, file)
    ELSE IF tok.type = "RETURN" THEN parseReturn(toks, pos, file)
    ELSE LET expr == parseExpression(toks, pos, file) IN
         IF ~expr.ok THEN expr
         ELSE Ok([type |-> "ExprStatement", expr |-> expr.node,
                  loc |-> locFrom(expr.node, Undefined)], expr.pos)

RECURSIVE ParseBody(_, _, _, _)

\* parser.js:31: body.push(parseStatement()), s being what parseStatement gave
BodyStep(toks, body, file, s) ==
    IF ~s.ok THEN s ELSE ParseBody(toks, s.pos, Append(body, s.node), file)

\* parser.js:29-33
ParseBody(toks, pos, body, file) ==
    IF peek(toks, pos).type = "EOF"
    THEN [ok |-> TRUE, program |-> [type |-> "Program", body |-> body]]
    ELSE BodyStep(toks, body, file, parseStatement(toks, pos, file))

parse(toks, file) == ParseBody(toks, 0, <<>>, file)

-----------------------------------------------------------------------------
(* runtime.js: environment *)

\* runtime.js:5 and 44: the global frame, seeded with print
Globals == [n \in {"print"} |-> PrintFn]

\* Object.prototype.hasOwnProperty.call(frame, name)
HasOwn(frame, name) == name \in DOMAIN frame

\* frame[name] = value
Bind(frame, name, value) ==
    [n \in DOMAIN frame \cup {name} |-> IF n = name THEN value ELSE frame[n]]

\* Faulty variant of setVar: the binding is made in the outermost frame
setVarOutermost(env, name, value) == [env EXCEPT ![1] = Bind(env[1], name, value)]

\* runtime.js:9-11
setVar(env, name, value) == [env EXCEPT ![Len(env)] = Bind(env[Len(env)], name, value)]

RECURSIVE getVarFrom(_, _, _, _)
\* The loop of getVar from frame i (1-based) outwards; loc.file is read from a
\* loc that may have no such property.
getVarFrom(env, i, name, loc) ==
    IF i < 1
    THEN [ok |-> FALSE,
          err |-> QastError("Undefined variable '" \o name \o "'",
                            IF "file" \in DOMAIN loc THEN loc.file ELSE Undefined,
                            loc.start.line, loc.start.column, Undefined)]
    ELSE IF HasOwn(env[i], name) THEN [ok |-> TRUE, value |-> env[i][name]]
    ELSE getVarFrom(env, i - 1, name, loc)

\* runtime.js:13-20
getVar(env, name, loc) == getVarFrom(env, Len(env), name, loc)

-----------------------------------------------------------------------------
(* runtime.js: expressions *)

\* ToNumber of a value; strings are outside the modelled fragment.
ToNumber(v) ==
    CASE v.t = "num" -> v
      [] v.t = "bool" -> (IF v.v THEN Num(1) ELSE Num(0))
      [] v.t = "null" -> Num(0)
      [] v.t = "undefined" -> NaN
      [] v.t = "nan" -> NaN
      [] OTHER -> Unmodelled

Abs(i) == IF i < 0 THEN -i ELSE i

\* left op right for the arithmetic operators - * / % on numbers
Arith(op, l, r) ==
    LET a == ToNumber(l)
        b == ToNumber(r)
    IN
    IF a.t = "unmodelled" \/ b.t = "unmodelled" THEN Unmodelled
    ELSE IF a.t = "nan" \/ b.t = "nan" THEN NaN
    ELSE CASE op = "+" -> Num(a.v + b.v)
           [] op = "-" -> Num(a.v - b.v)
           [] op = "*" -> Num(a.v * b.v)
           [] op = "/" ->
                (IF b.v = 0 THEN (IF a.v = 0 THEN NaN ELSE Unmodelled)
                 ELSE IF Abs(a.v) % Abs(b.v) # 0 THEN Unmodelled
                 ELSE IF (a.v < 0) = (b.v < 0) THEN Num(Abs(a.v) \div Abs(b.v))
                 ELSE Num(-(Abs(a.v) \div Abs(b.v))))
           [] op = "%" ->
                (IF b.v = 0 THEN NaN
                 ELSE IF a.v < 0 THEN Num(-(Abs(a.v) % Abs(b.v)))
                 ELSE Num(a.v % Abs(b.v)))

\* left + right: concatenation when either operand is a string
Plus(l, r) ==
    IF l.t = "str" \/ r.t = "str"
    THEN (IF l.t \in {"unmodelled", "fn"} \/ r.t \in {"unmodelled", "fn"} THEN Unmodelled
          ELSE Str(JsToString(l) \o JsToString(r)))
    ELSE Arith("+", l, r)

\* left === right
StrictEquals(l, r) ==
    IF l.t = "unmodelled" \/ r.t = "unmodelled" THEN Unmodelled
    ELSE IF l.t # r.t THEN Bool(FALSE)
    ELSE IF l.t \in {"null", "undefined"} THEN Bool(TRUE)
    ELSE IF l.t = "nan" THEN Bool(FALSE)
    ELSE Bool(l.v = r.v)

JsNot(b) == IF b.t = "bool" THEN Bool(~b.v) ELSE b

\* left < right and the like; two strings compare as text, outside the fragment
Relational(op, l, r) ==
    LET a == ToNumber(l)
        b == ToNumber(r)
    IN
    IF a.t = "unmodelled" \/ b.t = "unmodelled" THEN Unmodelled
    ELSE IF a.t = "nan" \/ b.t = "nan" THEN Bool(FALSE)
    ELSE CASE op = ">" -> Bool(a.v > b.v)
           [] op = "<" -> Bool(a.v < b.v)
           [] op = ">=" -> Bool(a.v >= b.v)
           [] op = "<=" -> Bool(a.v <= b.v)

\* the truthiness used by !v
Truthy(v) ==
    CASE v.t = "num" -> v.v # 0
      [] v.t = "str" -> v.v # ""
      [] v.t = "bool" -> v.v
      [] v.t \in {"null", "undefined", "nan"} -> FALSE
      [] OTHER -> TRUE

\* runtime.js:112-137
ApplyBinary(op, left, right) ==
    IF op = "+" THEN [ok |-> TRUE, value |-> Plus(left, right)]
    ELSE IF op \in {"-", "*", "/", "%"} THEN [ok |-> TRUE, value |-> Arith(op, left, right)]
    ELSE IF op = "==" THEN [ok |-> TRUE, value |-> StrictEquals(left, right)]
    ELSE IF op = "!=" THEN [ok |-> TRUE, value |-> JsNot(StrictEquals(left, right))]
    ELSE IF op \in {">", "<", ">=", "<="}
    THEN [ok |-> TRUE, value |-> Relational(op, left, right)]
    ELSE [ok |-> FALSE, err |-> InternalError("Unknown operator " \o op)]

\* runtime.js:104-107
ApplyUnary(op, v) ==
    IF op = "-" THEN [ok |-> TRUE, value |-> Arith("-", Num(0), v)]
    ELSE IF op = "!"
    THEN [ok |-> TRUE, value |-> IF v.t = "unmodelled" THEN Unmodelled ELSE Bool(~Truthy(v))]
    ELSE [ok |-> FALSE, err |-> InternalError("Unknown unary operator " \o op)]

FallbackLoc == [file |-> "<unknown>", start |-> [line |-> 0, column |-> 0]]

RECURSIVE evalExpression(_, _)

\* The operand a compound expression evaluates first
FirstOperand(node) ==
    CASE node.type = "UnaryExpression" -> node.argument
      [] node.type = "BinaryExpression" -> node.left
      [] node.type = "Grouping" -> node.expression

\* runtime.js:103-140; first and second are the values of the recursive calls,
\* second (the right operand) being evaluated only after first succeeded.
evalCompound(node, first, second) ==
    IF ~first.ok THEN first
    ELSE CASE node.type = "UnaryExpression" -> ApplyUnary(node.operator, first.value)
           [] node.type = "BinaryExpression" ->
                (IF ~second.ok THEN second
                 ELSE ApplyBinary(node.operator, first.value, second.value))
           [] node.type = "Grouping" -> first

\* runtime.js:95-144; env is runtime.envStack
evalExpression(node, env) ==
    CASE node.type = "NumberLiteral" -> [ok |-> TRUE, value |-> node.value]
      [] node.type = "StringLiteral" -> [ok |-> TRUE, value |-> Str(node.value)]
      [] node.type = "Identifier" ->
            getVar(env, node.name, IF "loc" \in DOMAIN node THEN node.loc ELSE FallbackLoc)
      [] node.type \in {"UnaryExpression", "BinaryExpression", "Grouping"} ->
            evalCompound(node, evalExpression(FirstOperand(node), env),
                         IF node.type = "BinaryExpression"
                         THEN evalExpression(node.right, env) ELSE Undefined)
      [] OTHER -> [ok |-> FALSE,
                   err |-> InternalError("Unknown expression type " \o node.type)]

-----------------------------------------------------------------------------
(* runtime.js: statements *)

TraceLine(node) == [kind |-> "trace", text |-> "[trace] " \o node.type]
PrintLine(v) == [kind |-> "print", value |-> v]
PromptLine(p) == [kind |-> "prompt", value |-> p]

\* runtime.js:61-65
TraceOut(node, tr) == IF tr THEN <<TraceLine(node)>> ELSE <<>>

Done(env, out) == [err |-> NoErr, env |-> env, out |-> out, ret |-> Undefined]
Thrown(e, env, out) == [err |-> e, env |-> env, out |-> out, ret |-> Undefined]

\* Faulty variant of evalStatement: the count of a LoopStatement is evaluated
evalStatementRunsCount(node, env, tr) ==
    LET out == TraceOut(node, tr) IN
    CASE node.type = "PrintStatement" ->
            (LET v == evalExpression(node.argument, env) IN
             IF ~v.ok THEN Thrown(v.err, env, out)
             ELSE IF env[1]["print"].t # "fn"
             THEN Thrown(InternalError("print is not a function"), env, out)
             ELSE Done(env, Append(out, PrintLine(v.value))))
      [] node.type = "SetStatement" ->
            (LET v == evalExpression(node.value, env) IN
             IF ~v.ok THEN Thrown(v.err, env, out)
             ELSE Done(setVar(env, node.name, v.value), out))
      [] node.type = "ExprStatement" ->
            (LET v == evalExpression(node.expr, env) IN
             IF ~v.ok THEN Thrown(v.err, env, out) ELSE Done(env, out))
      [] node.type = "ReturnStatement" ->
            (IF node.argument = Null
             THEN [Done(env, out) EXCEPT !.ret = [type |-> "return", value |-> Null]]
             ELSE LET v == evalExpression(node.argument, env) IN
                  IF ~v.ok THEN Thrown(v.err, env, out)
                  ELSE [Done(env, out) EXCEPT !.ret = [type |-> "return", value |-> v.value]])
      [] node.type = "LoopStatement" ->
            (LET v == evalExpression(node.count, env) IN
             IF ~v.ok THEN Thrown(v.err, env, out) ELSE Done(env, out))
      [] OTHER -> Done(env, out)

\* runtime.js:60-93, for every statement but InputStatement (whose await
\* suspends the pass: InputRequest and InputResume below).  The value is
\* [err, env, out, ret]: the error thrown or NoErr, the environment after, the
\* lines written, and the value returned to evalProgram.
evalStatement(node, env, tr) ==
    LET out == TraceOut(node, tr) IN
    CASE node.type = "PrintStatement" ->
            (LET v == evalExpression(node.argument, env) IN
             IF ~v.ok THEN Thrown(v.err, env, out)
             ELSE IF env[1]["print"].t # "fn"
             THEN Thrown(InternalError("print is not a function"), env, out)
             ELSE Done(env, Append(out, PrintLine(v.value))))
      [] node.type = "SetStatement" ->
            (LET v == evalExpression(node.value, env) IN
             IF ~v.ok THEN Thrown(v.err, env, out)
             ELSE Done(setVar(env, node.name, v.value), out))
      [] node.type = "ExprStatement" ->
            (LET v == evalExpression(node.expr, env) IN
             IF ~v.ok THEN Thrown(v.err, env, out) ELSE Done(env, out))
      [] node.type = "ReturnStatement" ->
            (IF node.argument = Null
             THEN [Done(env, out) EXCEPT !.ret = [type |-> "return", value |-> Null]]
             ELSE LET v == evalExpression(node.argument, env) IN
                  IF ~v.ok THEN Thrown(v.err, env, out)
                  ELSE [Done(env, out) EXCEPT !.ret = [type |-> "return", value |-> v.value]])
      [] OTHER -> Done(env, out)

\* Faulty variant of IsReturn: a return without a value is not seen
IsReturnWithValue(res) == res # Undefined /\ res.type = "return" /\ res.value # Null

\* runtime.js:54: res && res.type === 'return'
IsReturn(res) == res # Undefined /\ res.type = "return"

-----------------------------------------------------------------------------
(* Inputs *)

\* The lines programs are made of (a line may hold several statements):
\*   q.print 1
\*   q.set x = 5
\*   q.print x
\*   q.input x "?"
\*   q.return 7
\*   q.loop y end if x == 5 end
\*   q.while y end fn f a end
\*   q.print -x
\*   q.x + 1
\*   q.return
ProgLines ==
    {<<"q", ".", "p", "r", "i", "n", "t", " ", "1">>,
     <<"q", ".", "s", "e", "t", " ", "x", " ", "=", " ", "5">>,
     <<"q", ".", "p", "r", "i", "n", "t", " ", "x">>,
     <<"q", ".", "i", "n", "p", "u", "t", " ", "x", " ", "\"", "?", "\"">>,
     <<"q", ".", "r", "e", "t", "u", "r", "n", " ", "7">>,
     <<"q", ".", "l", "o", "o", "p", " ", "y", " ", "e", "n", "d", " ", "i", "f", " ", "x", " ", "=", "=", " ", "5", " ", "e", "n", "d">>,
     <<"q", ".", "w", "h", "i", "l", "e", " ", "y", " ", "e", "n", "d", " ", "f", "n", " ", "f", " ", "a", " ", "e", "n", "d">>,
     <<"q", ".", "p", "r", "i", "n", "t", " ", "-", "x">>,
     <<"q", ".", "x", " ", "+", " ", "1">>,
     <<"q", ".", "r", "e", "t", "u", "r", "n">>}

\* The physical lines lexer inputs are made of: header variants, a blank and a
\* comment line, prefixed and unprefixed lines, lexical errors, a line ending in CR
LexLines ==
    {<<"n", "e", "w", " ", "q", "a", "s">>,
     <<" ", " ", "n", "e", "w", " ", "q", "a", "s", " ">>,
     <<"n", "e", "w", " ", "q", "a", "s", "x">>,
     <<>>,
     <<" ", "#", " ", "n", "o", "t", "e">>,
     <<" ", " ", "q", ".", "s", "e", "t", " ", "x", " ", "=", " ", "1", "2">>,
     <<" ", "\t", "p", "r", "i", "n", "t", " ", "1">>,
     <<"q">>,
     <<"q", ".", "p", "r", "i", "n", "t", " ", "\"", "a", "\\", "n">>,
     <<"q", ".", "x", ">", "=", "1", ".", "5", " ", "'", "a", " ", "b", "'", "\r">>,
     <<"q", ".", "p", " ", "@">>}

Newline == <<"\n">>

RECURSIVE JoinLines(_)
\* Every line followed by a newline
JoinLines(ls) == IF ls = <<>> THEN <<>> ELSE Head(ls) \o Newline \o JoinLines(Tail(ls))

SeqsUpTo(S, n) == UNION {[1..k -> S] : k \in 0..n}

\* Programs: the header line, then up to MaxStmts statement lines
ProgSources == {HeaderText \o Newline \o JoinLines(ls) : ls \in SeqsUpTo(ProgLines, MaxStmts)}

\* Lexer inputs: 1..MaxLexLines lines, with or without a final newline
LexSources ==
    {IF nl THEN JoinLines(ls) ELSE SubSeq(JoinLines(ls), 1, Len(JoinLines(ls)) - 1) :
        ls \in SeqsUpTo(LexLines, MaxLexLines) \ {<<>>}, nl \in BOOLEAN}

\* The lines a user may type at an input prompt
AnswerLines == {"5", "hi"}

Names == {"x", "y"}
Values == {Num(1), Str("a")}
Locs == {[start |-> [line |-> 2, column |-> 7], end |-> [line |-> 2, column |-> 7]],
         [start |-> [line |-> 3, column |-> 1], end |-> [line |-> 3, column |-> 1]]}

NoOp == [op |-> "none"]

-----------------------------------------------------------------------------
(* State machine *)

Lines == SplitLines(source)

LexState == [i |-> lexI, headerFound |-> headerFound, tokens |-> tokens, pc |-> lexPc,
             err |-> err]

InitCommon ==
    /\ lexI = 0
    /\ headerFound = FALSE
    /\ tokens = <<>>
    /\ err = NoErr
    /\ ast = Undefined
    /\ envStack = <<>>
    /\ evalI = 0
    /\ evalPc = "idle"
    /\ awaiting = "no"
    /\ answer = ""
    /\ output = <<>>
    /\ result = Undefined
    /\ evaluated = <<>>
    /\ lastOp = NoOp

\* main() of bin/qast.js about to call lex on a program file
Init ==
    /\ InitCommon
    /\ refTree = Undefined
    /\ cursor = 0
    /\ source \in ProgSources
    /\ trace \in BOOLEAN
    /\ lexPc = "loop"
    /\ stage = "lex"

\* lex called on an arbitrary source text
LexInit ==
    /\ InitCommon
    /\ refTree = Undefined
    /\ cursor = 0
    /\ source \in LexSources
    /\ trace = FALSE
    /\ lexPc = "loop"
    /\ stage = "lex"

\* One iteration of the loop of lex (lexer.js:18-41); a throw ends main()
LexLine ==
    /\ stage = "lex"
    /\ lexPc = "loop"
    /\ lexI < Len(Lines)
    /\ LET st == LexIter(Lines, LexState, File) IN
       /\ lexI' = st.i
       /\ headerFound' = st.headerFound
       /\ tokens' = st.tokens
       /\ lexPc' = st.pc
       /\ err' = st.err
       /\ stage' = IF st.pc = "failed" THEN "exit" ELSE stage
    /\ UNCHANGED <<source, ast, lastOp, refTree, cursor>>
    /\ UNCHANGED evalVars

\* The loop of lex is over: EOF is pushed and the tokens returned (lexer.js:43-44)
LexReturn ==
    /\ stage = "lex"
    /\ lexPc = "loop"
    /\ lexI = Len(Lines)
    /\ LET st == LexExit(Lines, LexState, File) IN
       /\ tokens' = st.tokens
       /\ lexPc' = st.pc
    /\ stage' = "parse"
    /\ UNCHANGED <<source, lexI, headerFound, err, ast, lastOp, refTree, cursor>>
    /\ UNCHANGED evalVars

\* parse(tokens, filePath) in main() (qast.js:54)
Parse ==
    /\ stage = "parse"
    /\ LET r == parse(tokens, File) IN
       IF r.ok
       THEN /\ ast' = r.program
            /\ stage' = "start"
            /\ err' = err
       ELSE /\ ast' = ast
            /\ stage' = "exit"
            /\ err' = r.err
    /\ UNCHANGED lexVars
    /\ UNCHANGED evalVars
    /\ UNCHANGED <<lastOp, refTree, cursor>>

\* createRuntime and the call of evalProgram (qast.js:61-62, runtime.js:4-49)
StartEval ==
    /\ stage = "start"
    /\ envStack' = <<Globals>>
    /\ evalPc' = "run"
    /\ evalI' = 0
    /\ stage' = "eval"
    /\ UNCHANGED lexVars
    /\ UNCHANGED <<err, ast, trace, awaiting, answer, output, result, evaluated, lastOp, refTree, cursor>>

CurrentStmt == ast.body[evalI + 1]

\* One iteration of the loop of evalProgram on a statement that does not suspend
\* (runtime.js:52-57 with evalStatement)
EvalStmt ==
    /\ stage = "eval"
    /\ evalPc = "run"
    /\ awaiting = "no"
    /\ evalI < Len(ast.body)
    /\ CurrentStmt.type # "InputStatement"
    /\ LET r == evalStatement(CurrentStmt, envStack, trace) IN
       /\ output' = output \o r.out
       /\ envStack' = r.env
       /\ evaluated' = Append(evaluated, evalI + 1)
       /\ IF r.err # NoErr
          THEN /\ err' = r.err
               /\ evalPc' = "failed"
               /\ stage' = "exit"
               /\ UNCHANGED <<evalI, result>>
          ELSE IF IsReturn(r.ret)
          THEN /\ result' = r.ret.value
               /\ evalPc' = "done"
               /\ stage' = "exit"
               /\ UNCHANGED <<evalI, err>>
          ELSE /\ evalI' = evalI + 1
               /\ UNCHANGED <<err, evalPc, stage, result>>
    /\ UNCHANGED lexVars
    /\ UNCHANGED <<ast, trace, awaiting, answer, lastOp, refTree, cursor>>

\* evalStatement on an InputStatement up to its await: the trace line, then
\* rl.question writes the prompt and the pass is suspended (runtime.js:61-65, 77-78, 22-33)
InputRequest ==
    /\ stage = "eval"
    /\ evalPc = "run"
    /\ awaiting = "no"
    /\ evalI < Len(ast.body)
    /\ CurrentStmt.type = "InputStatement"
    /\ output' = output \o TraceOut(CurrentStmt, trace)
                   \o <<PromptLine(IF CurrentStmt.prompt = Null THEN Str("")
                                   ELSE CurrentStmt.prompt)>>
    /\ awaiting' = "waiting"
    /\ evaluated' = Append(evaluated, evalI + 1)
    /\ UNCHANGED lexVars
    /\ UNCHANGED <<err, stage, ast, trace, envStack, evalI, evalPc, answer, result, lastOp,
                   refTree, cursor>>

\* The user enters a line: the callback of rl.question resolves the promise
\* (runtime.js:28-31)
SupplyLine ==
    /\ awaiting = "waiting"
    /\ \E a \in AnswerLines : answer' = a
    /\ awaiting' = "resolved"
    /\ UNCHANGED lexVars
    /\ UNCHANGED <<err, stage, ast, trace, envStack, evalI, evalPc, output, result, evaluated,
                   lastOp, refTree, cursor>>

\* Faulty variant of InputResume: the pass resumes but the line is not bound
InputResumeDropsLine ==
    /\ awaiting = "resolved"
    /\ awaiting' = "no"
    /\ evalI' = evalI + 1
    /\ UNCHANGED lexVars
    /\ UNCHANGED <<err, stage, ast, trace, envStack, evalPc, answer, output, result, evaluated,
                   lastOp, refTree, cursor>>

\* The pass resumes after the await: the answer is bound and the loop goes on
\* (runtime.js:78-80)
InputResume ==
    /\ awaiting = "resolved"
    /\ envStack' = setVar(envStack, CurrentStmt.name, Str(answer))
    /\ awaiting' = "no"
    /\ evalI' = evalI + 1
    /\ UNCHANGED lexVars
    /\ UNCHANGED <<err, stage, ast, trace, evalPc, answer, output, result, evaluated, lastOp,
                   refTree, cursor>>

\* The loop of evalProgram ends without a return (runtime.js:52, 58)
EvalFinish ==
    /\ stage = "eval"
    /\ evalPc = "run"
    /\ awaiting = "no"
    /\ evalI = Len(ast.body)
    /\ evalPc' = "done"
    /\ result' = Undefined
    /\ stage' = "exit"
    /\ UNCHANGED lexVars
    /\ UNCHANGED <<err, ast, trace, envStack, evalI, awaiting, answer, output, evaluated,
                   lastOp, refTree, cursor>>

EvalNext == EvalStmt \/ InputRequest \/ InputResume \/ EvalFinish

Next == LexLine \/ LexReturn \/ Parse \/ StartEval \/ EvalNext \/ SupplyLine

Spec == Init /\ [][Next]_vars

\* The event loop runs the continuation of a resolved promise; nothing obliges
\* the user to type a line.
LiveSpec == Init /\ [][Next]_vars /\ WF_vars(InputResume)

LexNext == LexLine \/ LexReturn

LexSpec == LexInit /\ [][LexNext]_vars

-----------------------------------------------------------------------------
(* The environment on its own: runtime.envStack is a property of the runtime
   object, so a caller may push and pop frames around setVar and getVar. *)

EmptyFrame == [n \in {} |-> Undefined]

EnvInit ==
    /\ InitCommon
    /\ refTree = Undefined
    /\ cursor = 0
    /\ source = <<>>
    /\ trace = FALSE
    /\ lexPc = "idle"
    /\ stage = "env"

EnvUnchanged ==
    UNCHANGED <<source, lexI, headerFound, tokens, lexPc, err, stage, ast, trace, evalI,
                evalPc, awaiting, answer, output, result, evaluated, refTree, cursor>>

\* createRuntime (runtime.js:4-49)
CreateRuntime ==
    /\ stage = "env"
    /\ envStack = <<>>
    /\ envStack' = <<Globals>>
    /\ lastOp' = [op |-> "create"]
    /\ EnvUnchanged

\* runtime.setVar(name, value)
SetVarCall ==
    /\ stage = "env"
    /\ envStack # <<>>
    /\ \E n \in Names, v \in Values :
          /\ envStack' = setVar(envStack, n, v)
          /\ lastOp' = [op |-> "set", name |-> n, value |-> v, before |-> envStack]
    /\ EnvUnchanged

\* runtime.getVar(name, loc), loc being the loc of an Identifier node
GetVarCall ==
    /\ stage = "env"
    /\ envStack # <<>>
    /\ \E n \in Names, loc \in Locs :
          lastOp' = [op |-> "get", name |-> n, loc |-> loc, before |-> envStack,
                     ret |-> getVar(envStack, n, loc)]
    /\ UNCHANGED envStack
    /\ EnvUnchanged

\* runtime.envStack.push({})
PushFrame ==
    /\ stage = "env"
    /\ envStack # <<>>
    /\ Len(envStack) < MaxDepth
    /\ envStack' = Append(envStack, EmptyFrame)
    /\ lastOp' = [op |-> "push"]
    /\ EnvUnchanged

\* runtime.envStack.pop()
PopFrame ==
    /\ stage = "env"
    /\ Len(envStack) > 1
    /\ envStack' = SubSeq(envStack, 1, Len(envStack) - 1)
    /\ lastOp' = [op |-> "pop"]
    /\ EnvUnchanged

EnvNext == CreateRuntime \/ SetVarCall \/ GetVarCall \/ PushFrame \/ PopFrame

EnvSpec == EnvInit /\ [][EnvNext]_vars

-----------------------------------------------------------------------------
(* Expressions against a reference grammar.  A reference tree is a number
   [k |-> "num", v], a negation [k |-> "neg", a] or a binary operation
   [k |-> "bin", op, l, r]; it is written out with the parentheses the
   reference precedence table requires (or with all of them), and the text is
   tokenized, parsed by parseExpression and evaluated. *)

Leaves == <<2, 3, 4>>
RefOps == {"==", "<", "+", "-", "*", "%"}

RECURSIVE RefShapes(_)
\* The shapes of the reference trees with exactly n operators, every leaf 0
RefShapes(n) ==
    IF n = 0 THEN {[k |-> "num", v |-> 0]}
    ELSE {[k |-> "neg", a |-> t] : t \in RefShapes(n - 1)}
         \cup UNION {{[k |-> "bin", op |-> o, l |-> x, r |-> y] :
                        o \in RefOps, x \in RefShapes(i), y \in RefShapes(n - 1 - i)} :
                     i \in 0..(n - 1)}

RECURSIVE LeafCount(_)
LeafCount(t) ==
    IF t.k = "num" THEN 1
    ELSE IF t.k = "neg" THEN LeafCount(t.a)
    ELSE LeafCount(t.l) + LeafCount(t.r)

RECURSIVE Numbered(_, _)
\* The shape t with its leaves, from left to right, 2, 3, 4, 2, ... starting
\* at the leaf of rank first
Numbered(t, first) ==
    IF t.k = "num" THEN [k |-> "num", v |-> Leaves[((first - 1) % Len(Leaves)) + 1]]
    ELSE IF t.k = "neg" THEN [k |-> "neg", a |-> Numbered(t.a, first)]
    ELSE [k |-> "bin", op |-> t.op, l |-> Numbered(t.l, first),
          r |-> Numbered(t.r, first + LeafCount(t.l))]

\* The reference trees with exactly n operators
RefTrees(n) == {Numbered(t, 1) : t \in RefShapes(n)}

RefInputs == {[tree |-> t, style |-> st] :
                t \in UNION {RefTrees(n) : n \in 0..MaxOps}, st \in {"min", "full"}}

\* The reference precedence: equality < comparison < additive < multiplicative
\* < unary < primary
RefPrec(t) ==
    IF t.k = "num" THEN 6
    ELSE IF t.k = "neg" THEN 5
    ELSE IF t.op \in {"==", "!="} THEN 1
    ELSE IF t.op \in {">", "<", ">=", "<="} THEN 2
    ELSE IF t.op \in {"+", "-"} THEN 3
    ELSE 4

OpChars(o) ==
    CASE o = "==" -> <<"=", "=">> [] o = "!=" -> <<"!", "=">> [] o = ">=" -> <<">", "=">>
      [] o = "<=" -> <<"<", "=">> [] OTHER -> <<o>>

Paren(cs, wrap) == IF wrap THEN <<"(">> \o cs \o <<")">> ELSE cs

RECURSIVE Render(_, _)
\* The text of a reference tree.  A left operand is parenthesised when it binds
\* weaker than its parent, a right operand when it does not bind tighter
\* (operators of one level group to the left); style "full" parenthesises
\* every compound operand.
Render(t, style) ==
    IF t.k = "num" THEN <<DigitChar(t.v)>>
    ELSE IF t.k = "neg"
    THEN <<"-">> \o Paren(Render(t.a, style),
                          IF style = "full" THEN t.a.k # "num" ELSE RefPrec(t.a) < 5)
    ELSE Paren(Render(t.l, style),
               IF style = "full" THEN t.l.k # "num" ELSE RefPrec(t.l) < RefPrec(t))
         \o <<" ">> \o OpChars(t.op) \o <<" ">>
         \o Paren(Render(t.r, style),
                  IF style = "full" THEN t.r.k # "num" ELSE RefPrec(t.r) <= RefPrec(t))

RECURSIVE RefEval(_)
\* The value of a reference tree
RefEval(t) ==
    IF t.k = "num" THEN Num(t.v)
    ELSE IF t.k = "neg" THEN ApplyUnary("-", RefEval(t.a)).value
    ELSE ApplyBinary(t.op, RefEval(t.l), RefEval(t.r)).value

RECURSIVE Strip(_)
\* The reference tree of an expression node: Grouping nodes and locs dropped
Strip(node) ==
    CASE node.type = "NumberLiteral" -> [k |-> "num", v |-> node.value.v]
      [] node.type = "UnaryExpression" -> [k |-> "neg", a |-> Strip(node.argument)]
      [] node.type = "BinaryExpression" ->
            [k |-> "bin", op |-> node.operator, l |-> Strip(node.left),
             r |-> Strip(node.right)]
      [] node.type = "Grouping" -> Strip(node.expression)

ExprInit ==
    /\ InitCommon
    /\ refTree \in RefInputs
    /\ cursor = 0
    /\ source = <<>>
    /\ trace = FALSE
    /\ lexPc = "idle"
    /\ stage = "expr"

\* tokenizeStatement on the text of the expression, EOF appended as lex does,
\* then parseExpression at the first token
ExprParse ==
    /\ stage = "expr"
    /\ LET text == Render(refTree.tree, refTree.style)
           t == tokenizeStatement(text, <<>>, File, 1)
           toks == Append(t.tokens, EofToken(<<text>>, File))
           r == parseExpression(toks, 0, File)
       IN /\ source' = text
          /\ tokens' = toks
          /\ IF r.ok
             THEN /\ ast' = r.node
                  /\ cursor' = r.pos
                  /\ err' = err
                  /\ stage' = "exprParsed"
             ELSE /\ ast' = ast
                  /\ cursor' = cursor
                  /\ err' = r.err
                  /\ stage' = "exit"
    /\ UNCHANGED <<lexI, headerFound, lexPc, lastOp, refTree>>
    /\ UNCHANGED evalVars

\* evalExpression on the node parsed, in a fresh runtime
ExprEval ==
    /\ stage = "exprParsed"
    /\ LET v == evalExpression(ast, <<Globals>>) IN
       IF v.ok
       THEN /\ result' = v.value
            /\ err' = err
            /\ stage' = "exprDone"
       ELSE /\ result' = result
            /\ err' = v.err
            /\ stage' = "exit"
    /\ UNCHANGED lexVars
    /\ UNCHANGED <<ast, trace, envStack, evalI, evalPc, awaiting, answer, output, evaluated,
                   lastOp, refTree, cursor>>

ExprNext == ExprParse \/ ExprEval

ExprSpec == ExprInit /\ [][ExprNext]_vars

-----------------------------------------------------------------------------
(* Properties of lex *)

\* Number of physical lines of the source: every newline character ends one
\* line and begins the next, which may be empty
NumLines == Cardinality({k \in 1..Len(source) : source[k] = "\n"}) + 1

\* Physical line k (1-based) without its terminator
PhysLine(k) == Lines[k]

LeadingSpaces(raw) == Cardinality({k \in 1..Len(raw) : \A j \in 1..k : IsSpace(raw[j])})

TrailingSpaces(raw) ==
    Cardinality({k \in 1..Len(raw) : \A j \in k..Len(raw) : IsSpace(raw[j])})

Stripped(raw) ==
    IF LeadingSpaces(raw) = Len(raw) THEN <<>>
    ELSE SubSeq(raw, LeadingSpaces(raw) + 1, Len(raw) - TrailingSpaces(raw))

\* Neither blank nor a comment
Effective(raw) == Stripped(raw) # <<>> /\ Stripped(raw)[1] # "#"

EffectiveLines == {k \in 1..NumLines : Effective(PhysLine(k))}

\* Number of the first effective line, 0 when there is none
FirstEffective ==
    IF EffectiveLines = {} THEN 0
    ELSE CHOOSE k \in EffectiveLines : \A j \in EffectiveLines : k <= j

HasPrefix(raw) == StartsWith(Stripped(raw), Prefix)

\* The lexer is past line k, or stopped on the way
Reached(k) == lexI >= k \/ lexPc = "failed"

\* C1: the first effective line must be exactly the header `new qas` once
\* trimmed: an exact header is accepted and yields no token; any other first
\* effective line fails with the header error at that line, column 1, with the
\* hint.
C1_HeaderExact ==
    (FirstEffective # 0 /\ Reached(FirstEffective)) =>
        IF Stripped(PhysLine(FirstEffective)) = HeaderText
        THEN /\ headerFound
             /\ \A i \in 1..Len(tokens) : tokens[i].line # FirstEffective
        ELSE /\ lexPc = "failed"
             /\ err = QastError(HeaderMessage, File, FirstEffective, 1, Str(HeaderHint))

\* C2: after the header is accepted, an effective line that does not begin
\* with `q.` fails with the prefix error at that line, at the 1-based column
\* of its first non-whitespace character, and lex returns nothing; blank and
\* comment lines never fail and yield no token.
C2_PrefixError ==
    /\ (lexPc = "failed" /\ err.message = PrefixMessage) =>
          /\ headerFound
          /\ err.line = lexI + 1
          /\ err.line > FirstEffective
          /\ Effective(PhysLine(err.line))
          /\ ~HasPrefix(PhysLine(err.line))
          /\ err.column = LeadingSpaces(PhysLine(err.line)) + 1
          /\ err.file = File
    /\ \A k \in 1..NumLines :
          (k <= lexI /\ k > FirstEffective /\ Effective(PhysLine(k))) =>
              HasPrefix(PhysLine(k))
    /\ (lexPc = "failed" /\ headerFound /\ lexI + 1 > FirstEffective
        /\ ~HasPrefix(PhysLine(lexI + 1))) => err.message = PrefixMessage
    /\ lexPc = "failed" => Effective(PhysLine(lexI + 1))
    /\ \A i \in 1..Len(tokens) :
          tokens[i].type # "EOF" => Effective(PhysLine(tokens[i].line))

\* A prefix error raised on an indented line that follows an accepted header
C2_Witness ==
    /\ lexPc = "failed"
    /\ err.message = PrefixMessage
    /\ err.column > 1
    /\ err.line > 1
    /\ \E k \in 1..lexI : ~Effective(PhysLine(k))

\* C3: a successful lex returns exactly one EOF token, last, at line = number
\* of physical lines and column 1; every other token has line and column at
\* least 1, its line is the line of the `q.` statement it came from, and lines
\* never decrease along the token list.
C3_EofAndPositions ==
    lexPc = "returned" =>
        /\ Len(tokens) >= 1
        /\ tokens[Len(tokens)].type = "EOF"
        /\ tokens[Len(tokens)].line = NumLines
        /\ tokens[Len(tokens)].column = 1
        /\ \A i \in 1..(Len(tokens) - 1) :
              /\ tokens[i].type # "EOF"
              /\ tokens[i].line \in 1..NumLines
              /\ tokens[i].column >= 1
              /\ tokens[i].line > FirstEffective
              /\ HasPrefix(PhysLine(tokens[i].line))
              /\ tokens[i].line <= tokens[i + 1].line

\* A lex that returned tokens of two statement lines from a source of several lines
C3_Witness ==
    /\ lexPc = "returned"
    /\ NumLines >= 3
    /\ \E i, j \in 1..(Len(tokens) - 1) : tokens[i].line < tokens[j].line

-----------------------------------------------------------------------------
(* Properties of evalProgram *)

Started == evalPc # "idle"

Body == ast.body

ReturnIndexes == {i \in 1..Len(Body) : Body[i].type = "ReturnStatement"}

\* Index of the first ReturnStatement of the program, 0 when there is none
FirstReturn ==
    IF ReturnIndexes = {} THEN 0
    ELSE CHOOSE i \in ReturnIndexes : \A j \in ReturnIndexes : i <= j

CountKind(kind) == Cardinality({k \in 1..Len(output) : output[k].kind = kind})

CountType(type) ==
    Cardinality({k \in 1..Len(evaluated) : Body[evaluated[k]].type = type})

\* The names the statements evaluated so far may have bound
BoundNames ==
    {Body[evaluated[k]].name :
        k \in {j \in 1..Len(evaluated) :
                  Body[evaluated[j]].type \in {"SetStatement", "InputStatement"}}}

\* evalStatement was called on statements 1, 2, ..., each once
InOrder == \A k \in 1..Len(evaluated) : evaluated[k] = k

\* C4: once a ReturnStatement is evaluated no later statement is (none
\* prints, binds, prompts or traces) and the pass resolves with the value of
\* the return argument, null when it is omitted; without a ReturnStatement
\* every statement is evaluated and the pass resolves with no value.
C4_ReturnShortCircuits ==
    Started =>
        /\ InOrder
        /\ FirstReturn # 0 => Len(evaluated) <= FirstReturn
        /\ CountKind("trace") = (IF trace THEN Len(evaluated) ELSE 0)
        /\ CountKind("print") <= CountType("PrintStatement")
        /\ CountKind("prompt") = CountType("InputStatement")
        /\ DOMAIN envStack[Len(envStack)] \subseteq (DOMAIN Globals \cup BoundNames)
        /\ evalPc = "done" =>
              IF FirstReturn # 0
              THEN /\ Len(evaluated) = FirstReturn
                   /\ result = (IF Body[FirstReturn].argument = Null THEN Null
                                ELSE evalExpression(Body[FirstReturn].argument,
                                                    envStack).value)
              ELSE /\ Len(evaluated) = Len(Body)
                   /\ result = Undefined

\* `return 7` followed by a print: the pass is over with result 7 and the
\* print was never reached
C4_Witness ==
    /\ evalPc = "done"
    /\ FirstReturn # 0
    /\ FirstReturn < Len(Body)
    /\ Body[FirstReturn + 1].type = "PrintStatement"
    /\ result = Num(7)
    /\ CountKind("print") = CountType("PrintStatement")

NoOpTypes == {"IfStatement", "LoopStatement", "WhileStatement", "FunctionDef"}

\* A step in which evalStatement is called on one of the no-op statements
NoOpStep ==
    /\ Started
    /\ evaluated' # evaluated
    /\ Body[evalI + 1].type \in NoOpTypes

\* C5: evaluating an If/Loop/While/FunctionDef statement changes no frame
\* and no binding, writes nothing but the trace line of trace mode, raises no
\* error whatever its test or count expression mentions, and the pass goes on
\* with the next statement: statements are evaluated once each, in order.
C5_NoOpStatements ==
    /\ [](Started => InOrder)
    /\ [][NoOpStep =>
            /\ envStack' = envStack
            /\ err' = NoErr
            /\ evalPc' = "run"
            /\ evalI' = evalI + 1
            /\ evaluated' = Append(evaluated, evalI + 1)
            /\ result' = result
            /\ awaiting' = awaiting
            /\ output' = (IF trace THEN Append(output, TraceLine(Body[evalI + 1]))
                          ELSE output)]_vars

\* A loop whose count is an unbound identifier was evaluated, and so was the
\* print that ends the program
C5_Witness ==
    /\ evalPc = "done"
    /\ Len(evaluated) = Len(Body)
    /\ \E i \in 1..(Len(Body) - 1) :
          /\ Body[i].type = "LoopStatement"
          /\ Body[i].count.type = "Identifier"
          /\ Body[i].count.name \notin DOMAIN envStack[1]
    /\ Body[Len(Body)].type = "PrintStatement"
    /\ CountKind("print") = CountType("PrintStatement")

\* C7: every QastError raised by lex, parse or the evaluation carries a
\* defined file, a line >= 1 and a column >= 1, and ends the stage that raised
\* it: no tokens are returned, no Program is built, no later statement runs.
C7_ErrorsCarryPosition ==
    (err # NoErr /\ err.isQastError) =>
        /\ err.file.t = "str"
        /\ err.line >= 1
        /\ err.column >= 1
        /\ stage = "exit"
        /\ lexPc = "failed" => (ast = Undefined /\ evalPc = "idle")
        /\ ast = Undefined => evalPc = "idle"
        /\ evalPc # "idle" => (evalPc = "failed" /\ evalI = Len(evaluated) - 1)

-----------------------------------------------------------------------------
(* Properties of the loc of the nodes *)

\* A token of the given type stands at position p
TokenAt(p, type) ==
    \E i \in 1..Len(tokens) :
        /\ tokens[i].line = p.line
        /\ tokens[i].column = p.column
        /\ tokens[i].type = type

\* The operator token op stands at position p
OpAt(p, op) ==
    \E i \in 1..Len(tokens) :
        /\ tokens[i].line = p.line
        /\ tokens[i].column = p.column
        /\ tokens[i].type = "OP"
        /\ tokens[i].value = op

RECURSIVE LocOk(_)
\* The loc of node and of every node below it: start at the first token of
\* the production, end at the end of the last sub-node
LocOk(node) ==
    CASE node.type = "NumberLiteral" -> TokenAt(node.loc.start, "NUMBER")
      [] node.type = "StringLiteral" -> TokenAt(node.loc.start, "STRING")
      [] node.type = "Identifier" -> TokenAt(node.loc.start, "IDENT")
      [] node.type = "Grouping" ->
            /\ OpAt(node.loc.start, "(")
            /\ node.loc.end = node.expression.loc.end
            /\ LocOk(node.expression)
      [] node.type = "UnaryExpression" ->
            /\ OpAt(node.loc.start, node.operator)
            /\ node.loc.end = node.argument.loc.end
            /\ LocOk(node.argument)
      [] node.type = "BinaryExpression" ->
            /\ node.loc.start = node.left.loc.start
            /\ node.loc.end = node.right.loc.end
            /\ LocOk(node.left)
            /\ LocOk(node.right)
      [] node.type = "PrintStatement" ->
            /\ TokenAt(node.loc.start, "PRINT")
            /\ node.loc.end = node.argument.loc.end
            /\ LocOk(node.argument)
      [] node.type = "SetStatement" ->
            /\ TokenAt(node.loc.start, "SET")
            /\ node.loc.end = node.value.loc.end
            /\ LocOk(node.value)
      [] node.type = "InputStatement" -> TokenAt(node.loc.start, "INPUT")
      [] node.type = "IfStatement" ->
            /\ TokenAt(node.loc.start, "IF")
            /\ node.loc.end = node.tests[1].test.loc.end
            /\ LocOk(node.tests[1].test)
      [] node.type = "LoopStatement" ->
            /\ TokenAt(node.loc.start, "LOOP")
            /\ node.loc.end = node.count.loc.end
            /\ LocOk(node.count)
      [] node.type = "WhileStatement" ->
            /\ TokenAt(node.loc.start, "WHILE")
            /\ node.loc.end = node.test.loc.end
            /\ LocOk(node.test)
      [] node.type = "FunctionDef" -> TokenAt(node.loc.start, "FN")
      [] node.type = "ReturnStatement" ->
            /\ TokenAt(node.loc.start, "RETURN")
            /\ node.argument # Null =>
                  (node.loc.end = node.argument.loc.end /\ LocOk(node.argument))
      [] node.type = "ExprStatement" ->
            /\ node.loc.start = node.expr.loc.start
            /\ node.loc.end = node.expr.loc.end
            /\ LocOk(node.expr)

\* C10: every node the parser built has loc.start at the first token its
\* production consumed and loc.end at the loc.end of its last sub-node; for a
\* UnaryExpression loc.start is the position of the prefix operator.
C10_LocSpansProduction ==
    ast # Undefined => \A i \in 1..Len(ast.body) : LocOk(ast.body[i])

-----------------------------------------------------------------------------
(* Properties of the suspension on input *)

\* The innermost frame of env2 is that of env1 with name bound to value, and
\* the outer frames are those of env1
BoundInnermost(env1, env2, name, value) ==
    /\ Len(env2) = Len(env1)
    /\ \A i \in 1..(Len(env1) - 1) : env2[i] = env1[i]
    /\ DOMAIN env2[Len(env2)] = DOMAIN env1[Len(env1)] \cup {name}
    /\ env2[Len(env2)][name] = value
    /\ \A n \in DOMAIN env1[Len(env1)] \ {name} : env2[Len(env2)][n] = env1[Len(env1)][n]

\* What the pass has done so far
PassProgress == <<envStack, evalI, evalPc, output, result, evaluated, err, stage>>

\* C9: statements take effect in the order of Program.body and a statement
\* begins only when the one before has completed; an InputStatement suspends
\* the pass until one line is supplied, the line is then bound as a string to
\* the name in the innermost frame and the pass goes on with the next
\* statement; while no line is supplied nothing else happens and the pass
\* does not complete; once the line is supplied the pass does continue.
C9_InputSuspends ==
    /\ [](Started => InOrder)
    /\ [](awaiting # "no" =>
            /\ evalPc = "run"
            /\ Body[evalI + 1].type = "InputStatement"
            /\ Len(evaluated) = evalI + 1)
    /\ [][evaluated' # evaluated =>
            /\ awaiting = "no"
            /\ Len(evaluated) = evalI
            /\ evaluated' = Append(evaluated, evalI + 1)]_vars
    /\ [][awaiting = "waiting" =>
            /\ awaiting' = "resolved"
            /\ answer' \in AnswerLines
            /\ PassProgress' = PassProgress]_vars
    /\ [][awaiting = "resolved" =>
            /\ awaiting' = "no"
            /\ BoundInnermost(envStack, envStack', Body[evalI + 1].name, Str(answer))
            /\ evalI' = evalI + 1
            /\ evalPc' = "run"
            /\ evaluated' = evaluated
            /\ output' = output]_vars
    /\ (awaiting = "resolved") ~> (awaiting = "no")

\* An input was answered with "hi", bound to x, and the statement after it
\* was evaluated
C9_Witness ==
    /\ Started
    /\ awaiting = "no"
    /\ \E k \in 1..(Len(evaluated) - 1) :
          /\ Body[evaluated[k]].type = "InputStatement"
          /\ Body[evaluated[k]].name = "x"
    /\ answer = "hi"
    /\ "x" \in DOMAIN envStack[Len(envStack)]
    /\ envStack[Len(envStack)]["x"] = Str("hi")

-----------------------------------------------------------------------------
(* Properties of setVar and getVar *)

\* The frames of env that contain name
Holders(env, name) == {i \in 1..Len(env) : name \in DOMAIN env[i]}

Innermost(S) == CHOOSE i \in S : \A j \in S : j <= i

\* C6: with any number of frames, setVar creates or overwrites the binding
\* in the innermost frame and leaves every outer frame as it was; getVar
\* returns the value of the innermost frame that contains the name, and when
\* no frame does it throws the undefined-variable error at the start of the
\* Identifier's loc instead of returning a value.
C6_FrameDiscipline ==
    /\ lastOp.op = "set" =>
          BoundInnermost(lastOp.before, envStack, lastOp.name, lastOp.value)
    /\ lastOp.op = "get" =>
          /\ envStack = lastOp.before
          /\ IF Holders(lastOp.before, lastOp.name) # {}
             THEN /\ lastOp.ret.ok
                  /\ lastOp.ret.value =
                        lastOp.before[Innermost(Holders(lastOp.before, lastOp.name))][lastOp.name]
             ELSE /\ ~lastOp.ret.ok
                  /\ lastOp.ret.err.isQastError
                  /\ lastOp.ret.err.message = "Undefined variable '" \o lastOp.name \o "'"
                  /\ lastOp.ret.err.line = lastOp.loc.start.line
                  /\ lastOp.ret.err.column = lastOp.loc.start.column

\* x was set in an inner frame while an outer frame holds another value of x
C6_Witness ==
    /\ lastOp.op = "set"
    /\ lastOp.name = "x"
    /\ Len(envStack) >= 2
    /\ "x" \in DOMAIN envStack[1]
    /\ envStack[1]["x"] # envStack[Len(envStack)]["x"]

-----------------------------------------------------------------------------
(* Properties of the expression grammar *)

RECURSIVE Groupings(_)
\* Number of Grouping nodes of an expression
Groupings(node) ==
    CASE node.type = "Grouping" -> 1 + Groupings(node.expression)
      [] node.type = "UnaryExpression" -> Groupings(node.argument)
      [] node.type = "BinaryExpression" -> Groupings(node.left) + Groupings(node.right)
      [] OTHER -> 0

OpenParens == Cardinality({k \in 1..Len(source) : source[k] = "("})

\* C8: the tree parseExpression builds is the reference tree the text was
\* written from (precedence equality < comparison < additive < multiplicative
\* < unary < primary, operators of one level grouping to the left), with one
\* Grouping per pair of parentheses, and its value is the value of the
\* reference tree: 2 + 3 * 4 is 14 and (2 + 3) * 4 is 20.
C8_PrecedenceAndGrouping ==
    /\ stage # "exit"
    /\ stage \in {"exprParsed", "exprDone"} =>
          /\ Strip(ast) = refTree.tree
          /\ tokens[cursor + 1].type = "EOF"
          /\ Groupings(ast) = OpenParens
    /\ stage = "exprDone" => result = RefEval(refTree.tree)

\* 2 + 3 * 4 was parsed and evaluated to 14
C8_Witness ==
    /\ stage = "exprDone"
    /\ source = <<"2", " ", "+", " ", "3", " ", "*", " ", "4">>
    /\ ast.type = "BinaryExpression"
    /\ ast.operator = "+"
    /\ ast.right.type = "BinaryExpression"
    /\ result = Num(14)

====
